---- MODULE Spec2Model ----
(***************************************************************************)
(* mysticVM: the execution engine of src/vm/machine.rs (VM::new,          *)
(* VM::run_once, VM::run) over the instruction set of                     *)
(* src/vm/instruction.rs.                                                  *)
(*                                                                         *)
(* Rust evaluates `x << 8 + y` as `x << (8 + y)`.  With overflow checks   *)
(* (the debug profile) an overflowing +, -, * or an over-wide shift       *)
(* panics; without them (the release profile) +, -, * wrap and the shift  *)
(* amount is masked to the width of the shifted type.  The profile is the *)
(* variable overflow_checks, chosen when the machine is built.            *)
(***************************************************************************)
EXTENDS Integers, Sequences, FiniteSets, TLC

\* ------------------------------------------------------------------ constants

STACK_SIZE == 65536
REGISTERS == 16
\* width of usize on the 64-bit targets the crate is built for
USIZE_BITS == 64
\* width of u8 (Register, Byte)
U8_BITS == 8

U8_MOD == 2 ^ U8_BITS
U8 == 0 .. (U8_MOD - 1)

\* ------------------------------------------------------------------ bounds

\* longest instruction tail that follows the two register loads of a program
MaxBody == 2
\* longest program made of stack instructions only
MaxStackOps == 3
\* number of pre-states of run_once kept in hist
HistLen == 2

\* the addresses 0 .. Watch - 1 are the ones whose allocation is followed
Watch == 4

\* the count of calls that returned true stops at MaxCalls
MaxCalls == 8

\* ------------------------------------------------------------------ instructions

Load(reg, value) == [op |-> "Load", a |-> reg, b |-> value, c |-> 0]
Add(reg_result, reg_a, reg_b) == [op |-> "Add", a |-> reg_result, b |-> reg_a, c |-> reg_b]
Sub(reg_result, reg_a, reg_b) == [op |-> "Sub", a |-> reg_result, b |-> reg_a, c |-> reg_b]
Mul(reg_result, reg_a, reg_b) == [op |-> "Mul", a |-> reg_result, b |-> reg_a, c |-> reg_b]
Div(reg_result, reg_a, reg_b) == [op |-> "Div", a |-> reg_result, b |-> reg_a, c |-> reg_b]
Cmp(reg_result, reg_a, reg_b) == [op |-> "Cmp", a |-> reg_result, b |-> reg_a, c |-> reg_b]
SPush(reg_addr1, reg_addr2, reg_value) == [op |-> "SPush", a |-> reg_addr1, b |-> reg_addr2, c |-> reg_value]
SCopy(reg_addr1, reg_addr2, reg_value) == [op |-> "SCopy", a |-> reg_addr1, b |-> reg_addr2, c |-> reg_value]
SPop(reg_addr1, reg_addr2, reg_value) == [op |-> "SPop", a |-> reg_addr1, b |-> reg_addr2, c |-> reg_value]
SRep(reg_addr1, reg_addr2, reg_value) == [op |-> "SRep", a |-> reg_addr1, b |-> reg_addr2, c |-> reg_value]
REq(reg1, reg2) == [op |-> "REq", a |-> reg1, b |-> reg2, c |-> 0]
Eq(reg, value) == [op |-> "Eq", a |-> reg, b |-> value, c |-> 0]
Jump16(byte1, byte2) == [op |-> "Jump16", a |-> byte1, b |-> byte2, c |-> 0]
RJump16(reg1, reg2) == [op |-> "RJump16", a |-> reg1, b |-> reg2, c |-> 0]
Halt == [op |-> "Halt", a |-> 0, b |-> 0, c |-> 0]

\* ------------------------------------------------------------------ programs

\* values loaded into the two operand registers r0 and r1
Bytes == {0, 1, 5, 56, 100, 200}

\* the instructions a program tail is made of; no jump, so that no tail loops
Ops ==
    { Load(2, 16),
      Add(2, 0, 1), Sub(2, 0, 1), Mul(2, 0, 1), Div(2, 0, 1), Cmp(2, 0, 1),
      Cmp(0, 0, 1),
      SPush(0, 1, 2), SCopy(0, 1, 3), SPop(0, 1, 3), SRep(0, 1, 2),
      REq(0, 1), Eq(0, 5), Halt }

\* SPush(0, 0, 2) names one register for both address bytes
StackOps ==
    { Load(2, 16), SPush(0, 1, 2), SPush(0, 0, 2),
      SCopy(0, 1, 3), SPop(0, 1, 3), SRep(0, 1, 2) }

SeqsUpTo(S, n) == UNION { [1 .. k -> S] : k \in 0 .. n }

SetupPrograms ==
    { <<Load(0, x), Load(1, y)>> \o body :
        x \in Bytes, y \in Bytes, body \in SeqsUpTo(Ops, MaxBody) }

StackPrograms == SeqsUpTo(StackOps, MaxStackOps)

\* the sample program: push 0x10, read it back, add 4, write the sum back
SampleProgram ==
    << Load(2, 16), SPush(0, 1, 2), Load(2, 4),
       SCopy(0, 1, 3), Add(2, 2, 3), SRep(0, 1, 2) >>

\* a jump whose operands are the two loaded bytes, or the two loaded registers
JumpPrograms ==
    UNION { { <<Load(0, x), Load(1, y), Jump16(x, y), Halt>>,
              <<Load(0, x), Load(1, y), RJump16(0, 1), Halt>> } :
            x \in Bytes, y \in Bytes }

\* Eq r0 0x05; Jump16 hi lo; Halt, entered with each of the bytes in r0
EqJumpPrograms ==
    { <<Load(0, x), Eq(0, 5), Jump16(hi, lo), Halt>> :
        x \in Bytes, hi \in {0, 3}, lo \in {0, 3} }

\* two pushes, a pop of the second, then pushes until the free list is empty
ReuseProgram ==
    << SPush(0, 1, 2), SPush(0, 1, 2), SPop(0, 1, 3), SPush(4, 5, 2), Jump16(2, 0) >>

\* a loop that pushes until the free list is empty
ExhaustProgram == << Load(2, 0), SPush(0, 1, 2), Jump16(0, 0) >>

Programs ==
    SetupPrograms \cup StackPrograms \cup JumpPrograms \cup EqJumpPrograms
        \cup {SampleProgram, ExhaustProgram, ReuseProgram}

\* ------------------------------------------------------------------ state

VARIABLES
    stack,              \* the nonzero bytes of VM.stack: address -> value
    stack_memory_map,   \* VM.stack_memory_map: sequence of <<ptr, size>>
    registers,          \* VM.registers
    program,            \* VM.program
    program_counter,    \* VM.program_counter
    overflow_checks,    \* the build profile: TRUE debug, FALSE release
    outcome,            \* "start", the last return of run_once, or its panic
    hist,               \* pre-states of the last calls of run_once, newest first
    source,             \* the lines of the text given to assemble
    line_no,            \* how many of them pass 1 has taken
    patched,            \* how many of used_labels pass 2 has taken
    asm,                \* the locals of assemble, and its result when it ends
    allocated,          \* watched addresses pushed and not yet named by an SPop
    disciplined,        \* every SPop so far named an address in allocated
    calls               \* calls of run_once that returned true, up to MaxCalls

vars == <<stack, stack_memory_map, registers, program, program_counter,
          overflow_checks, outcome, hist, source, line_no, patched, asm,
          allocated, disciplined, calls>>

history == <<allocated, disciplined, calls>>

assembler == <<source, line_no, patched, asm>>

machine == <<stack, stack_memory_map, registers, program_counter>>

\* the fields of VM
TypeOK ==
    /\ DOMAIN stack \subseteq 0 .. (STACK_SIZE - 1)
    /\ \A x \in DOMAIN stack : stack[x] \in U8 \ {0}
    /\ \A i \in 1 .. Len(stack_memory_map) :
         stack_memory_map[i][1] \in Nat /\ stack_memory_map[i][2] \in Nat
    /\ registers \in [0 .. (REGISTERS - 1) -> U8]
    /\ program_counter \in Nat
    /\ overflow_checks \in BOOLEAN

\* ------------------------------------------------------------------ arithmetic

Min(x, y) == IF x < y THEN x ELSE y

\* the 8-bit result of +, -, * when the operation does not panic
WrappingU8(n) == n % U8_MOD

\* +, -, * on u8 panic on overflow exactly when the build checks for it
Overflows(n) == overflow_checks /\ (n < 0 \/ n >= U8_MOD)

\* number of low zero bits of x, x in 1 .. 255
TrailingZeros(x) == CHOOSE t \in 0 .. (U8_BITS - 1) : x % (2 ^ t) = 0 /\ x % (2 ^ (t + 1)) # 0

\* every usize at or above 2^24 indexes the stack out of bounds alike
BeyondStack == 2 ^ 24

\* (x as usize) << s for x in u8 and s < USIZE_BITS, modulo 2^USIZE_BITS;
\* exact below 2^24 and BeyondStack from there on
ShlUsize(x, s) ==
    IF x = 0 THEN 0
    ELSE IF s + TrailingZeros(x) >= USIZE_BITS THEN 0
    ELSE IF s <= 16 THEN x * (2 ^ s)
    ELSE BeyondStack

\* x << s on u8 with the shift amount masked to the width of u8
ShlU8(x, s) == (x * (2 ^ (s % U8_BITS))) % U8_MOD

\* ------------------------------------------------------------------ stack addresses

\* `(registers[reg_addr1] as usize) << 8 + registers[reg_addr2] as usize`
\* parses as hi << (8 + lo): the shift amount
AddressShift(lo) == 8 + lo

AddressShiftPanics(lo) == overflow_checks /\ AddressShift(lo) >= USIZE_BITS

Address(hi, lo) == ShlUsize(hi, AddressShift(lo) % USIZE_BITS)

\* self.stack[address]
InStack(address) == address < STACK_SIZE

StackRead(s, address) == IF address \in DOMAIN s THEN s[address] ELSE 0

StackWrite(s, address, value) ==
    IF value = 0
    THEN [x \in (DOMAIN s) \ {address} |-> s[x]]
    ELSE [x \in (DOMAIN s) \cup {address} |-> IF x = address THEN value ELSE s[x]]

\* ------------------------------------------------------------------ jump targets

\* `(byte1 << 8 + byte2) as usize` parses as byte1 << (8 + byte2), all in u8
JumpAddOverflows(byte2) == overflow_checks /\ 8 + byte2 >= U8_MOD

JumpShiftOverflows(byte2) == overflow_checks /\ WrappingU8(8 + byte2) >= U8_BITS

JumpTarget(byte1, byte2) == ShlU8(byte1, WrappingU8(8 + byte2))

\* ------------------------------------------------------------------ run_once

IsPanic(o) == o \notin {"start", "true", "false"}

Snapshot ==
    [ registers |-> registers, stack |-> stack,
      stack_memory_map |-> stack_memory_map, program_counter |-> program_counter,
      allocated |-> allocated ]

Remember == hist' = SubSeq(<<Snapshot>> \o hist, 1, Min(HistLen, Len(hist) + 1))

Init ==
    /\ program \in Programs
    /\ overflow_checks \in BOOLEAN
    /\ stack = <<>>
    /\ stack_memory_map = << <<0, STACK_SIZE>> >>
    /\ registers = [r \in 0 .. (REGISTERS - 1) |-> 0]
    /\ program_counter = 0
    /\ outcome = "start"
    /\ hist = <<>>
    /\ source = <<>>
    /\ line_no = 0
    /\ patched = 0
    /\ asm = [ program |-> <<>>, instruction |-> 0, labels |-> {},
               used_labels |-> <<>>, result |-> "" ]
    /\ allocated = {}
    /\ disciplined = TRUE
    /\ calls = 0

\* run_once can be called on a machine that has not panicked
Callable == ~IsPanic(outcome)

InProgram == program_counter < Len(program)

Current == program[program_counter + 1]

Fetched(name) == Callable /\ InProgram /\ Current.op = name

Watched == 0 .. (Watch - 1)

\* the address whose two bytes SPush wrote into registers holding hi and lo
Named(hi, lo) == hi * 256 + lo

\* what the call that is returning outcome' adds to the history of the run:
\* a call that returned, the address an SPush handed out, and the address
\* that the registers of an SPop name
Track ==
    /\ calls' = IF outcome' = "true" THEN Min(calls + 1, MaxCalls) ELSE calls
    /\ IF outcome' = "true" /\ InProgram /\ Current.op = "SPush"
            /\ stack_memory_map # <<>>
       THEN /\ allocated' = allocated \cup ({stack_memory_map[1][1]} \cap Watched)
            /\ UNCHANGED disciplined
       ELSE IF outcome' = "true" /\ InProgram /\ Current.op = "SPop"
       THEN LET target == Named(registers[Current.a], registers[Current.b]) IN
            /\ allocated' = allocated \ {target}
            /\ disciplined' = (disciplined /\ target \in allocated)
       ELSE UNCHANGED <<allocated, disciplined>>

Frame ==
    /\ Remember
    /\ Track
    /\ UNCHANGED <<program, overflow_checks>>
    /\ UNCHANGED assembler

\* the panic unwinds out of run_once before any field is assigned
Panic(msg) == outcome' = msg /\ UNCHANGED machine /\ Frame

\* a return of true that leaves the program counter where the match left it
ReturnTrueNoAdvance(pc) == program_counter' = pc /\ outcome' = "true" /\ Frame

\* `self.program_counter += 1; return true;` after the match left it at pc
ReturnTrue(pc) == program_counter' = pc + 1 /\ outcome' = "true" /\ Frame

ReturnFalse == outcome' = "false" /\ UNCHANGED machine /\ Frame

\* a fetch past the end of the program without the bounds check
RunPastEndUnchecked == Callable /\ ~InProgram /\ Panic("index out of bounds")

\* `if self.program_counter >= self.program.len() { return false; }`
RunPastEnd == Callable /\ ~InProgram /\ ReturnFalse

RunLoad ==
    /\ Fetched("Load")
    /\ registers' = [registers EXCEPT ![Current.a] = Current.b]
    /\ UNCHANGED <<stack, stack_memory_map>>
    /\ ReturnTrue(program_counter)

\* Add, Sub, Mul: `registers[reg_result] = registers[reg_a] <op> registers[reg_b]`
Arith(exact, msg) ==
    IF Overflows(exact)
    THEN Panic(msg)
    ELSE /\ registers' = [registers EXCEPT ![Current.a] = WrappingU8(exact)]
         /\ UNCHANGED <<stack, stack_memory_map>>
         /\ ReturnTrue(program_counter)

\* an Add arm that subtracts
RunAddAsSub ==
    /\ Fetched("Add")
    /\ Arith(registers[Current.b] - registers[Current.c], "attempt to subtract with overflow")

RunAdd ==
    /\ Fetched("Add")
    /\ Arith(registers[Current.b] + registers[Current.c], "attempt to add with overflow")

RunSub ==
    /\ Fetched("Sub")
    /\ Arith(registers[Current.b] - registers[Current.c], "attempt to subtract with overflow")

RunMul ==
    /\ Fetched("Mul")
    /\ Arith(registers[Current.b] * registers[Current.c], "attempt to multiply with overflow")

\* a division that yields 0 on a zero divisor and goes on
RunDivUnchecked ==
    /\ Fetched("Div")
    /\ registers' = [registers EXCEPT
                       ![Current.a] = IF registers[Current.c] = 0 THEN 0
                                      ELSE registers[Current.b] \div registers[Current.c]]
    /\ UNCHANGED <<stack, stack_memory_map>>
    /\ ReturnTrue(program_counter)

\* u8 / u8 panics on a zero divisor in every build
RunDiv ==
    /\ Fetched("Div")
    /\ IF registers[Current.c] = 0
       THEN Panic("attempt to divide by zero")
       ELSE /\ registers' = [registers EXCEPT
                               ![Current.a] = registers[Current.b] \div registers[Current.c]]
            /\ UNCHANGED <<stack, stack_memory_map>>
            /\ ReturnTrue(program_counter)

\* a comparison with the codes of less and greater exchanged
CmpResultSwapped(v_a, v_b) == IF v_a < v_b THEN 2 ELSE IF v_a = v_b THEN 1 ELSE 0

CmpResult(v_a, v_b) == IF v_a < v_b THEN 0 ELSE IF v_a = v_b THEN 1 ELSE 2

RunCmp ==
    /\ Fetched("Cmp")
    /\ registers' = [registers EXCEPT
                       ![Current.a] = CmpResult(registers[Current.b], registers[Current.c])]
    /\ UNCHANGED <<stack, stack_memory_map>>
    /\ ReturnTrue(program_counter)

\* the two address bytes SPush writes into its address registers
HighByte(ptr) == (ptr \div 256) % 256

LowByte(ptr) == ptr % 256

\* a shrink that leaves the start of the run where it was
ShrinkNoAdvance(map) ==
    IF map[1][2] > 1
    THEN <<  <<map[1][1], map[1][2] - 1>>  >> \o Tail(map)
    ELSE Tail(map)

\* `if map.1 > 1 { map.1 -= 1; map.0 += 1; } else { remove(0) }`
Shrink(map) ==
    IF map[1][2] > 1
    THEN <<  <<map[1][1] + 1, map[1][2] - 1>>  >> \o Tail(map)
    ELSE Tail(map)

\* SPush on a free list with a first run <<ptr, size>>
Allocate ==
    LET ptr == stack_memory_map[1][1] IN
    /\ stack' = StackWrite(stack, ptr, registers[Current.c])
    /\ registers' = [[registers EXCEPT ![Current.a] = HighByte(ptr)]
                                EXCEPT ![Current.b] = LowByte(ptr)]
    /\ stack_memory_map' = Shrink(stack_memory_map)
    /\ ReturnTrue(program_counter)

\* an SPush that allocates nothing on an empty free list and goes on
RunSPushSilent ==
    /\ Fetched("SPush")
    /\ IF stack_memory_map = <<>>
       THEN UNCHANGED <<registers, stack, stack_memory_map>> /\ ReturnTrue(program_counter)
       ELSE Allocate

\* `get_mut(0).unwrap()` panics on an empty free list
RunSPush ==
    /\ Fetched("SPush")
    /\ IF stack_memory_map = <<>>
       THEN Panic("called Option::unwrap() on a None value")
       ELSE Allocate

\* the address computation shared by SPop, SCopy and SRep, then the stack index
AddressPanic(hi, lo) ==
    IF AddressShiftPanics(lo) THEN "attempt to shift left with overflow"
    ELSE IF ~InStack(Address(hi, lo)) THEN "index out of bounds"
    ELSE "none"

\* an SPop that merges the byte it frees into the free run that starts right
\* after it
RunSPopCoalescing ==
    /\ Fetched("SPop")
    /\ LET hi == registers[Current.a]
           lo == registers[Current.b]
           next == { i \in 1 .. Len(stack_memory_map) :
                        stack_memory_map[i][1] = Address(hi, lo) + 1 }
       IN  IF AddressPanic(hi, lo) # "none"
           THEN Panic(AddressPanic(hi, lo))
           ELSE /\ stack_memory_map' =
                     IF next = {}
                     THEN Append(stack_memory_map, <<Address(hi, lo), 1>>)
                     ELSE LET i == CHOOSE j \in next : TRUE IN
                          [stack_memory_map EXCEPT
                              ![i] = <<Address(hi, lo), stack_memory_map[i][2] + 1>>]
                /\ registers' = [registers EXCEPT
                                   ![Current.c] = StackRead(stack, Address(hi, lo))]
                /\ UNCHANGED stack
                /\ ReturnTrue(program_counter)

RunSPop ==
    /\ Fetched("SPop")
    /\ LET hi == registers[Current.a]
           lo == registers[Current.b]
       IN  IF AddressPanic(hi, lo) # "none"
           THEN Panic(AddressPanic(hi, lo))
           ELSE /\ stack_memory_map' = Append(stack_memory_map, <<Address(hi, lo), 1>>)
                /\ registers' = [registers EXCEPT
                                   ![Current.c] = StackRead(stack, Address(hi, lo))]
                /\ UNCHANGED stack
                /\ ReturnTrue(program_counter)

\* an SCopy that returns the byte it reads to the free list, as SPop does
RunSCopyFreeing ==
    /\ Fetched("SCopy")
    /\ LET hi == registers[Current.a]
           lo == registers[Current.b]
       IN  IF AddressPanic(hi, lo) # "none"
           THEN Panic(AddressPanic(hi, lo))
           ELSE /\ stack_memory_map' = Append(stack_memory_map, <<Address(hi, lo), 1>>)
                /\ registers' = [registers EXCEPT
                                   ![Current.c] = StackRead(stack, Address(hi, lo))]
                /\ UNCHANGED stack
                /\ ReturnTrue(program_counter)

RunSCopy ==
    /\ Fetched("SCopy")
    /\ LET hi == registers[Current.a]
           lo == registers[Current.b]
       IN  IF AddressPanic(hi, lo) # "none"
           THEN Panic(AddressPanic(hi, lo))
           ELSE /\ registers' = [registers EXCEPT
                                   ![Current.c] = StackRead(stack, Address(hi, lo))]
                /\ UNCHANGED <<stack, stack_memory_map>>
                /\ ReturnTrue(program_counter)

RunSRep ==
    /\ Fetched("SRep")
    /\ LET hi == registers[Current.a]
           lo == registers[Current.b]
       IN  IF AddressPanic(hi, lo) # "none"
           THEN Panic(AddressPanic(hi, lo))
           ELSE /\ stack' = StackWrite(stack, Address(hi, lo), registers[Current.c])
                /\ UNCHANGED <<registers, stack_memory_map>>
                /\ ReturnTrue(program_counter)

\* a comparison that never skips the following instruction
SkipNever(left, right) == program_counter

\* a comparison that skips the following instruction when the two are equal
SkipOnEqual(left, right) == IF left = right THEN program_counter + 1 ELSE program_counter

\* REq, Eq: `if left != right { self.program_counter += 1; }`
Skip(left, right) == IF left # right THEN program_counter + 1 ELSE program_counter

RunREq ==
    /\ Fetched("REq")
    /\ UNCHANGED <<registers, stack, stack_memory_map>>
    /\ ReturnTrue(Skip(registers[Current.a], registers[Current.b]))

RunEq ==
    /\ Fetched("Eq")
    /\ UNCHANGED <<registers, stack, stack_memory_map>>
    /\ ReturnTrue(Skip(registers[Current.a], Current.b))

\* Jump16, RJump16: `self.program_counter = (byte1 << 8 + byte2) as usize`
Jump(byte1, byte2) ==
    IF JumpAddOverflows(byte2) THEN Panic("attempt to add with overflow")
    ELSE IF JumpShiftOverflows(byte2) THEN Panic("attempt to shift left with overflow")
    ELSE /\ UNCHANGED <<registers, stack, stack_memory_map>>
         /\ ReturnTrue(JumpTarget(byte1, byte2))

RunJump16 ==
    /\ Fetched("Jump16")
    /\ Jump(Current.a, Current.b)

RunRJump16 ==
    /\ Fetched("RJump16")
    /\ Jump(registers[Current.a], registers[Current.b])

\* a Halt that steps over itself before it returns false
RunHaltAdvance ==
    /\ Fetched("Halt")
    /\ program_counter' = program_counter + 1
    /\ outcome' = "false"
    /\ UNCHANGED <<registers, stack, stack_memory_map>>
    /\ Frame

RunHalt ==
    /\ Fetched("Halt")
    /\ ReturnFalse

run_once ==
    \/ RunPastEnd
    \/ RunLoad
    \/ RunAdd
    \/ RunSub
    \/ RunMul
    \/ RunDiv
    \/ RunCmp
    \/ RunSPush
    \/ RunSPop
    \/ RunSCopy
    \/ RunSRep
    \/ RunREq
    \/ RunEq
    \/ RunJump16
    \/ RunRJump16
    \/ RunHalt

Next == run_once

Spec == Init /\ [][Next]_vars

\* ------------------------------------------------------------------ the last calls

\* the state in which the last call of run_once started
Pre == hist[1]

\* the state in which the call before the last started
Pre2 == hist[2]

InstrAt(pc) == program[pc + 1]

\* the last call of run_once executed an instruction named name
Stepped(name) ==
    /\ Len(hist) >= 1
    /\ Pre.program_counter < Len(program)
    /\ InstrAt(Pre.program_counter).op = name

Executed == InstrAt(Pre.program_counter)

\* the last call left registers, stack and free list as they were
MachineKept ==
    /\ registers = Pre.registers
    /\ stack = Pre.stack
    /\ stack_memory_map = Pre.stack_memory_map

\* the 16-bit address (hi << 8) | lo
Packed(hi, lo) == hi * 256 + lo

\* the sum of the lengths of the runs of a free list
RECURSIVE TotalFree(_)
TotalFree(map) == IF map = <<>> THEN 0 ELSE map[1][2] + TotalFree(Tail(map))

\* every address at which one of two stacks holds a nonzero byte
Touched(s, t) == (DOMAIN s) \cup (DOMAIN t)

\* ------------------------------------------------------------------ C1

\* C1: an SCopy, SPop or SRep with address registers (h, l) reads or writes the
\* stack at exactly registers[h] * 256 + registers[l]: the call returns true,
\* SCopy and SPop load the byte at that address, SPop returns that address to the
\* free list, and SRep stores at that address.
C1_AddressIsPacked ==
    LET addr == Packed(Pre.registers[Executed.a], Pre.registers[Executed.b]) IN
    /\ Stepped("SCopy") =>
         /\ outcome = "true"
         /\ registers = [Pre.registers EXCEPT ![Executed.c] = StackRead(Pre.stack, addr)]
    /\ Stepped("SPop") =>
         /\ outcome = "true"
         /\ registers = [Pre.registers EXCEPT ![Executed.c] = StackRead(Pre.stack, addr)]
         /\ stack_memory_map = Append(Pre.stack_memory_map, <<addr, 1>>)
    /\ Stepped("SRep") =>
         /\ outcome = "true"
         /\ \A x \in Touched(stack, Pre.stack) \cup {addr} :
              StackRead(stack, x) =
                IF x = addr THEN Pre.registers[Executed.c] ELSE StackRead(Pre.stack, x)

\* ------------------------------------------------------------------ C2

\* C2: after a call that executes Jump16(hi, lo) the program counter is exactly
\* (hi << 8) | lo, and after RJump16(h, l) it is exactly
\* (registers[h] << 8) | registers[l]; no increment follows in that call.
C2_JumpIsExact ==
    /\ Stepped("Jump16") =>
         /\ outcome = "true"
         /\ program_counter = Packed(Executed.a, Executed.b)
    /\ Stepped("RJump16") =>
         /\ outcome = "true"
         /\ program_counter = Packed(Pre.registers[Executed.a], Pre.registers[Executed.b])

\* ------------------------------------------------------------------ C3

\* C3: a call on REq(a, b) advances the program counter by 2 when registers[a]
\* differs from registers[b] and by 1 when they are equal; a call on Eq(r, val)
\* does the same for registers[r] against val; registers, stack and free list
\* stay as they were.
C3_SkipOnInequality ==
    /\ Stepped("REq") =>
         /\ outcome = "true"
         /\ program_counter = Pre.program_counter +
              (IF Pre.registers[Executed.a] # Pre.registers[Executed.b] THEN 2 ELSE 1)
         /\ MachineKept
    /\ Stepped("Eq") =>
         /\ outcome = "true"
         /\ program_counter = Pre.program_counter +
              (IF Pre.registers[Executed.a] # Executed.b THEN 2 ELSE 1)
         /\ MachineKept

\* an REq on two different registers has skipped the following instruction
C3_Witness ==
    /\ Stepped("REq")
    /\ Pre.registers[Executed.a] # Pre.registers[Executed.b]
    /\ program_counter = Pre.program_counter + 2

\* ------------------------------------------------------------------ C4

\* C4: a call on Add, Sub or Mul, and on Div with a nonzero divisor, never
\* faults: it returns true with (a op b) mod 256 in the destination register.
C4_ArithmeticWraps ==
    LET v_a == Pre.registers[Executed.b]
        v_b == Pre.registers[Executed.c]
        Wrote(n) ==
            /\ outcome = "true"
            /\ registers = [Pre.registers EXCEPT ![Executed.a] = n % 256]
    IN  /\ Stepped("Add") => Wrote(v_a + v_b)
        /\ Stepped("Sub") => Wrote(v_a - v_b)
        /\ Stepped("Mul") => Wrote(v_a * v_b)
        /\ (Stepped("Div") /\ v_b # 0) => Wrote(v_a \div v_b)

\* ------------------------------------------------------------------ C5

\* C5: a call on Div(d, a, b) with registers[b] = 0 ends in the division-by-zero
\* fault, leaves the register file, the stack, the free list and the program
\* counter as they were, and no further call executes an instruction.
C5_DivByZeroFaults ==
    (Stepped("Div") /\ Pre.registers[Executed.c] = 0) =>
        /\ outcome = "attempt to divide by zero"
        /\ MachineKept
        /\ program_counter = Pre.program_counter
        /\ ~ENABLED run_once

\* a Div has met a zero divisor while its other operand was not zero
C5_Witness ==
    /\ Stepped("Div")
    /\ Pre.registers[Executed.c] = 0
    /\ Pre.registers[Executed.b] # 0
    /\ IsPanic(outcome)

\* ------------------------------------------------------------------ C6

\* C6: a call on SPush(h, l, v) with a free list whose first run is
\* (start, len) stores registers[v] at stack[start], writes (start >> 8) & 0xFF
\* into registers[h] and then start & 0xFF into registers[l], and replaces the
\* first run by (start + 1, len - 1), removing it when len - 1 = 0; the other
\* runs and the other stack bytes stay as they were.
C6_PushAllocatesFirstRun ==
    (Stepped("SPush") /\ Pre.stack_memory_map # <<>>) =>
        LET start == Pre.stack_memory_map[1][1]
            len == Pre.stack_memory_map[1][2]
            rest == Tail(Pre.stack_memory_map)
        IN  /\ outcome = "true"
            /\ \A x \in Touched(stack, Pre.stack) \cup {start} :
                 StackRead(stack, x) =
                   IF x = start THEN Pre.registers[Executed.c] ELSE StackRead(Pre.stack, x)
            /\ registers =
                 [[Pre.registers EXCEPT ![Executed.a] = (start \div 256) % 256]
                                 EXCEPT ![Executed.b] = start % 256]
            /\ stack_memory_map =
                 IF len - 1 = 0 THEN rest ELSE << <<start + 1, len - 1>> >> \o rest

\* an SPush has allocated a nonzero byte while a second run was on the free list
C6_Witness ==
    /\ Stepped("SPush")
    /\ Len(Pre.stack_memory_map) >= 2
    /\ Pre.registers[Executed.c] # 0
    /\ outcome = "true"

\* ------------------------------------------------------------------ C7

\* C7: a call on SPush with an empty free list ends in the fault of an
\* allocation against an empty free list, with registers, stack and free list
\* as they were.
C7_PushOnEmptyFaults ==
    (Stepped("SPush") /\ Pre.stack_memory_map = <<>>) =>
        /\ outcome = "called Option::unwrap() on a None value"
        /\ MachineKept
        /\ program_counter = Pre.program_counter
        /\ ~ENABLED run_once

\* an SPush has met the empty free list
C7_Witness ==
    /\ Stepped("SPush")
    /\ Pre.stack_memory_map = <<>>
    /\ IsPanic(outcome)

\* ------------------------------------------------------------------ C8

Disjoint(run1, run2) == run1[1] + run1[2] <= run2[1] \/ run2[1] + run2[2] <= run1[1]

\* C8: in every reachable state the runs of the free list lie inside the stack
\* and are pairwise non-overlapping, and the total free length plus the number
\* of allocated bytes is the stack size, so that the total free length never
\* exceeds the stack size.
C8_FreeListInvariant ==
    /\ \A i \in 1 .. Len(stack_memory_map) :
         stack_memory_map[i][1] + stack_memory_map[i][2] <= STACK_SIZE
    /\ \A i \in 1 .. Len(stack_memory_map) : \A j \in (i + 1) .. Len(stack_memory_map) :
         Disjoint(stack_memory_map[i], stack_memory_map[j])
    /\ TotalFree(stack_memory_map) <= STACK_SIZE

\* ------------------------------------------------------------------ C9

\* C9: when SPush(h, l, v), h and l distinct, on a non-empty free list is
\* followed at once by SPop(h, l, d), the SPop returns true, registers[d] holds
\* the value that was pushed, the run returned to the free list is the address
\* the SPush allocated, and the total free length is what it was before the
\* SPush.
C9_PushThenPop ==
    ( /\ Len(hist) >= 2
      /\ Stepped("SPop")
      /\ Pre.program_counter = Pre2.program_counter + 1
      /\ InstrAt(Pre2.program_counter).op = "SPush"
      /\ InstrAt(Pre2.program_counter).a # InstrAt(Pre2.program_counter).b
      /\ InstrAt(Pre2.program_counter).a = Executed.a
      /\ InstrAt(Pre2.program_counter).b = Executed.b
      /\ Pre2.stack_memory_map # <<>> ) =>
        /\ outcome = "true"
        /\ registers[Executed.c] = Pre2.registers[InstrAt(Pre2.program_counter).c]
        /\ stack_memory_map[Len(stack_memory_map)] = <<Pre2.stack_memory_map[1][1], 1>>
        /\ TotalFree(stack_memory_map) = TotalFree(Pre2.stack_memory_map)

\* ------------------------------------------------------------------ C10

\* C10: the sample program never panics, runs off its end after its six
\* instructions, and then registers[2] is 0x14 and so is the stack byte at
\* (registers[0] << 8) | registers[1], the address its SPush wrote.
C10_SampleProgram ==
    program = SampleProgram =>
        /\ ~IsPanic(outcome)
        /\ program_counter <= Len(program)
        /\ (outcome = "false" \/ program_counter = Len(program)) =>
             /\ program_counter = Len(program)
             /\ registers[2] = 20
             /\ StackRead(stack, Packed(registers[0], registers[1])) = 20

\* run has ended on the sample program
C10_Witness ==
    /\ program = SampleProgram
    /\ outcome = "false"
    /\ registers[3] = 16

\* ------------------------------------------------------------------ C11

\* C11: a call with the program counter at or beyond the end of the program
\* returns false without a panic and leaves registers, stack, free list and
\* program counter as they were, exactly as a call on Halt does.
C11_PastEndIsHalt ==
    ( /\ Len(hist) >= 1
      /\ (Pre.program_counter >= Len(program) \/ Stepped("Halt")) ) =>
        /\ outcome = "false"
        /\ MachineKept
        /\ program_counter = Pre.program_counter

\* a program that is not empty has run off its end
C11_Witness ==
    /\ Len(hist) >= 2
    /\ Pre.program_counter >= Len(program)
    /\ Pre2.program_counter < Len(program)
    /\ outcome = "false"

\* ------------------------------------------------------------------ C12

Stopped(o) == o = "false" \/ IsPanic(o)

\* C12: once a call has reported the machine stopped, every later call reports
\* it stopped too and leaves registers, stack, free list and program counter
\* as they were.
C12_StoppedStaysStopped ==
    [][Stopped(outcome) => (Stopped(outcome') /\ UNCHANGED machine)]_vars

\* run_once has been called again on a machine that a Halt had stopped, with an
\* instruction behind the Halt
C12_Witness ==
    /\ Len(hist) >= 2
    /\ Stepped("Halt")
    /\ Pre2.program_counter = Pre.program_counter
    /\ Pre.program_counter + 1 < Len(program)
    /\ outcome = "false"

\* ------------------------------------------------------------------ C13

\* C13: a call on Cmp(d, a, b) writes into registers[d] 0 when registers[a] is
\* below registers[b], 1 when they are equal and 2 when it is above, with the
\* operands read before the write; no other register, no stack byte and no run
\* changes, and the program counter advances by 1.
C13_CmpResult ==
    Stepped("Cmp") =>
        LET v_a == Pre.registers[Executed.b]
            v_b == Pre.registers[Executed.c]
        IN  /\ outcome = "true"
            /\ registers = [Pre.registers EXCEPT
                              ![Executed.a] = IF v_a < v_b THEN 0
                                              ELSE IF v_a = v_b THEN 1 ELSE 2]
            /\ stack = Pre.stack
            /\ stack_memory_map = Pre.stack_memory_map
            /\ program_counter = Pre.program_counter + 1

\* a Cmp whose destination is its first operand has found it the greater one
C13_Witness ==
    /\ Stepped("Cmp")
    /\ Executed.a = Executed.b
    /\ Pre.registers[Executed.b] > Pre.registers[Executed.c]
    /\ registers[Executed.a] = 2

\* ================================================================== assembler

\* A text is a sequence of one-character strings; a source is a sequence of
\* lines, as `source.lines()` yields them.

\* ------------------------------------------------------------------ text

StartsWith(text, prefix) ==
    Len(text) >= Len(prefix) /\ SubSeq(text, 1, Len(prefix)) = prefix

EndsWith(text, c) == Len(text) >= 1 /\ text[Len(text)] = c

\* `line.split(" ")`: the pieces between single spaces, empty pieces included
RECURSIVE Split(_)
Split(line) ==
    IF \A i \in 1 .. Len(line) : line[i] # " "
    THEN <<line>>
    ELSE LET i == CHOOSE k \in 1 .. Len(line) :
                    line[k] = " " /\ \A j \in 1 .. (k - 1) : line[j] # " "
         IN  <<SubSeq(line, 1, i - 1)>> \o Split(SubSeq(line, i + 1, Len(line)))

DecimalDigits == <<"0", "1", "2", "3", "4", "5", "6", "7", "8", "9">>
LowerDigits == <<"a", "b", "c", "d", "e", "f">>
UpperDigits == <<"A", "B", "C", "D", "E", "F">>

\* no digit in any radix up to 16
NoDigit == 16

\* `char::to_digit` for a radix up to 16
DigitValue(c) ==
    IF \E i \in 1 .. 10 : DecimalDigits[i] = c
    THEN (CHOOSE i \in 1 .. 10 : DecimalDigits[i] = c) - 1
    ELSE IF \E i \in 1 .. 6 : LowerDigits[i] = c
    THEN (CHOOSE i \in 1 .. 6 : LowerDigits[i] = c) + 9
    ELSE IF \E i \in 1 .. 6 : UpperDigits[i] = c
    THEN (CHOOSE i \in 1 .. 6 : UpperDigits[i] = c) + 9
    ELSE NoDigit

\* the value of a parse that failed
ParseIntError == -1

\* the digits of `u8::from_str_radix`, most significant first, onto acc
RECURSIVE Accumulate(_, _, _)
Accumulate(digits, radix, acc) ==
    IF digits = <<>> THEN acc
    ELSE IF DigitValue(digits[1]) >= radix THEN ParseIntError
    ELSE IF acc * radix + DigitValue(digits[1]) >= U8_MOD THEN ParseIntError
    ELSE Accumulate(Tail(digits), radix, acc * radix + DigitValue(digits[1]))

\* `u8::from_str_radix(src, radix)`: the value, or ParseIntError for an empty
\* text, a lone sign, a character that is no digit, or a value above 255
from_str_radix(src, radix) ==
    IF src = <<>> THEN ParseIntError
    ELSE IF Len(src) = 1 /\ src[1] \in {"+", "-"} THEN ParseIntError
    ELSE IF src[1] = "+" THEN Accumulate(Tail(src), radix, 0)
    ELSE Accumulate(src, radix, 0)


\* ------------------------------------------------------------------ tokens

NEXT0 == <<"N", "E", "X", "T", "0">>

NEXT1 == <<"N", "E", "X", "T", "1">>

LOAD == <<"L", "O", "A", "D">>

ADD == <<"A", "D", "D">>

SUB == <<"S", "U", "B">>

MUL == <<"M", "U", "L">>

DIV == <<"D", "I", "V">>

CMP == <<"C", "M", "P">>

SPUSH == <<"S", "P", "U", "S", "H">>

SCOPY == <<"S", "C", "O", "P", "Y">>

SPOP == <<"S", "P", "O", "P">>

SREP == <<"S", "R", "E", "P">>

REQ == <<"R", "E", "Q">>

EQ == <<"E", "Q">>

JUMP16 == <<"J", "U", "M", "P", "1", "6">>

RJUMP16 == <<"R", "J", "U", "M", "P", "1", "6">>

HALT == <<"H", "A", "L", "T">>

\* ------------------------------------------------------------------ get_value

Byte(v) == [tag |-> "Byte", value |-> v, err |-> ""]

Register(v) == [tag |-> "Register", value |-> v, err |-> ""]

Err(e) == [tag |-> "Err", value |-> 0, err |-> e]

\* `match u8::from_str_radix(..) { Ok(result) => .., Err(err) => .. }`
Parsed(n, arg) == IF n = ParseIntError THEN Err("ParseIntError") ELSE arg

\* `(address << 8) & 0xFF` on usize
ShiftedByte(address) == ShlUsize(address, 8) % U8_MOD

\* `&text[1..(text.len() - 1)]`
LabelName(text) == SubSeq(text, 2, Len(text) - 1)

\* get_value on the tokens not yet consumed: the argument it returns and what
\* it pushes onto used_labels; the caller drops the token it consumed
get_value(parts, instruction, arg_number) ==
    IF parts = <<>> THEN [arg |-> Err("MissingArgument"), used |-> <<>>]
    ELSE LET text == parts[1] IN
        IF text = NEXT0
        THEN [arg |-> Byte(ShiftedByte(instruction + 1)), used |-> <<>>]
        ELSE IF text = NEXT1
        THEN [arg |-> Byte((instruction + 1) % U8_MOD), used |-> <<>>]
        ELSE IF StartsWith(text, <<"0", "x">>)
        THEN [arg |-> LET n == from_str_radix(SubSeq(text, 3, Len(text)), 16)
                      IN  Parsed(n, Byte(n)),
              used |-> <<>>]
        ELSE IF StartsWith(text, <<"0", "b">>)
        THEN [arg |-> LET n == from_str_radix(SubSeq(text, 3, Len(text)), 2)
                      IN  Parsed(n, Byte(n)),
              used |-> <<>>]
        ELSE IF StartsWith(text, <<"0", "d">>)
        THEN [arg |-> LET n == from_str_radix(SubSeq(text, 3, Len(text)), 10)
                      IN  Parsed(n, Byte(n)),
              used |-> <<>>]
        ELSE IF StartsWith(text, <<"r">>)
        THEN [arg |-> LET n == from_str_radix(SubSeq(text, 2, Len(text)), 16)
                      IN  Parsed(n, Register(n)),
              used |-> <<>>]
        ELSE IF StartsWith(text, <<"$">>)
        THEN IF EndsWith(text, "0")
             THEN [arg |-> Byte(0),
                   used |-> << <<LabelName(text), 0, instruction, arg_number>> >>]
             ELSE IF EndsWith(text, "1")
             THEN [arg |-> Byte(0),
                   used |-> << <<LabelName(text), 1, instruction, arg_number>> >>]
             ELSE [arg |-> Err("WrongArgument"), used |-> <<>>]
        ELSE [arg |-> Err("WrongArgument"), used |-> <<>>]

\* ------------------------------------------------------------------ pass 1

\* the locals of assemble; result is "" while assemble is running
Start ==
    [ program |-> <<>>, instruction |-> 0, labels |-> {},
      used_labels |-> <<>>, result |-> "" ]

\* labels is a set of <<name, index>> with one pair for a name
Defined(labels, name) == \E l \in labels : l[1] = name

Get(labels, name) == (CHOOSE l \in labels : l[1] = name)[2]

\* `labels.insert(name, instruction)`: a later definition replaces an earlier
Insert(labels, name, instruction) ==
    { l \in labels : l[1] # name } \cup { <<name, instruction>> }

Known ==
    { LOAD, ADD, SUB, MUL, DIV, CMP, SPUSH, SCOPY, SPOP, SREP,
      REQ, EQ, JUMP16, RJUMP16, HALT }

\* the kinds of argument the arm of a mnemonic asks get_value for, in order
Kinds(mnemonic) ==
    CASE mnemonic = LOAD -> <<"Register", "Byte">>
      [] mnemonic \in {ADD, SUB, MUL, DIV, CMP, SPUSH, SCOPY, SPOP, SREP} ->
            <<"Register", "Register", "Register">>
      [] mnemonic = REQ -> <<"Register", "Register">>
      [] mnemonic = EQ -> <<"Register", "Byte">>
      [] mnemonic = JUMP16 -> <<"Byte", "Byte">>
      [] mnemonic = RJUMP16 -> <<"Register", "Register">>
      [] mnemonic = HALT -> <<>>

\* the instruction the arm of a mnemonic pushes
Emit(mnemonic, v) ==
    CASE mnemonic = LOAD -> Load(v[1], v[2])
      [] mnemonic = ADD -> Add(v[1], v[2], v[3])
      [] mnemonic = SUB -> Sub(v[1], v[2], v[3])
      [] mnemonic = MUL -> Mul(v[1], v[2], v[3])
      [] mnemonic = DIV -> Div(v[1], v[2], v[3])
      [] mnemonic = CMP -> Add(v[1], v[2], v[3])
      [] mnemonic = SPUSH -> SPush(v[1], v[2], v[3])
      [] mnemonic = SCOPY -> SCopy(v[1], v[2], v[3])
      [] mnemonic = SPOP -> SPop(v[1], v[2], v[3])
      [] mnemonic = SREP -> SRep(v[1], v[2], v[3])
      [] mnemonic = REQ -> REq(v[1], v[2])
      [] mnemonic = EQ -> Eq(v[1], v[2])
      [] mnemonic = JUMP16 -> Jump16(v[1], v[2])
      [] mnemonic = RJUMP16 -> RJump16(v[1], v[2])
      [] mnemonic = HALT -> Halt

\* the nested `if let` of an arm: the arguments are taken one by one, and the
\* first that is an error or of the wrong kind ends the arm
RECURSIVE Operands(_, _, _, _)
Operands(parts, kinds, instruction, arg_number) ==
    IF kinds = <<>> THEN [err |-> "", values |-> <<>>, used |-> <<>>]
    ELSE LET got == get_value(parts, instruction, arg_number) IN
        IF got.arg.tag = "Err"
        THEN [err |-> got.arg.err, values |-> <<>>, used |-> got.used]
        ELSE IF got.arg.tag # kinds[1]
        THEN [err |-> "WrongArgument", values |-> <<>>, used |-> got.used]
        ELSE LET rest == Operands(Tail(parts), Tail(kinds), instruction,
                                  arg_number + 1)
             IN  [ err |-> rest.err,
                   values |-> <<got.arg.value>> \o rest.values,
                   used |-> got.used \o rest.used ]

\* one iteration of `for line in source.lines()`
AssembleLine(st, line) ==
    LET parts == Split(line)
        labelled == StartsWith(parts[1], <<"$">>)
        labels == IF labelled
                  THEN Insert(st.labels, SubSeq(parts[1], 2, Len(parts[1])),
                              st.instruction)
                  ELSE st.labels
        renamed == labelled /\ Len(parts) >= 2
        part1 == IF renamed THEN parts[2] ELSE parts[1]
        rest == IF renamed THEN Tail(Tail(parts)) ELSE Tail(parts)
    IN  IF part1 \notin Known
        THEN [st EXCEPT !.labels = labels, !.result = "UnknownInstruction"]
        ELSE LET ops == Operands(rest, Kinds(part1), st.instruction, 0) IN
            IF ops.err # ""
            THEN [st EXCEPT !.labels = labels,
                            !.used_labels = @ \o ops.used,
                            !.result = ops.err]
            ELSE [st EXCEPT !.labels = labels,
                            !.used_labels = @ \o ops.used,
                            !.program = Append(@, Emit(part1, ops.values)),
                            !.instruction = @ + 1]

\* ------------------------------------------------------------------ pass 2

\* a lookup that finds a label only from its definition onwards
ResolveBefore(labels, ref) ==
    IF ref[3] < Get(labels, ref[1]) THEN 0 ELSE Get(labels, ref[1])

\* `labels.get(label.as_str())` when the label is there
Resolve(labels, ref) == Get(labels, ref[1])

\* `match b { 0 => (ptr << 8) & 0xFF, 1 => ptr & 0xFF, _ => panic!() } as u8`
PatchByte(ptr, b) == IF b = 0 THEN ShiftedByte(ptr) ELSE ptr % U8_MOD

\* one iteration of `for (label, b, i, arg) in used_labels`
Patch(st, ref) ==
    LET label == ref[1]
        b == ref[2]
        i == ref[3]
        arg == ref[4]
    IN  IF ~Defined(st.labels, label)
        THEN [st EXCEPT !.result = "LabelNotFound"]
        ELSE LET addr == PatchByte(Resolve(st.labels, ref), b) IN
            IF i >= Len(st.program) THEN st
            ELSE LET op == st.program[i + 1].op IN
                IF op \in {"Load", "REq"} /\ arg = 1
                THEN [st EXCEPT !.program[i + 1].b = addr]
                ELSE IF op = "Jump16" /\ arg = 0
                THEN [st EXCEPT !.program[i + 1].a = addr]
                ELSE IF op = "Jump16" /\ arg = 1
                THEN [st EXCEPT !.program[i + 1].b = addr]
                ELSE [st EXCEPT !.result = "explicit panic"]

\* ------------------------------------------------------------------ assemble

RECURSIVE Pass1(_, _)
Pass1(st, lines) ==
    IF lines = <<>> \/ st.result # "" THEN st
    ELSE Pass1(AssembleLine(st, lines[1]), Tail(lines))

RECURSIVE Pass2(_, _)
Pass2(st, refs) ==
    IF refs = <<>> \/ st.result # "" THEN st
    ELSE Pass2(Patch(st, refs[1]), Tail(refs))

\* assemble as a function of the lines of its source
assemble(lines) ==
    LET first == Pass1(Start, lines)
        second == Pass2(first, first.used_labels)
    IN  IF second.result # "" THEN second ELSE [second EXCEPT !.result = "Ok"]

\* ------------------------------------------------------------------ sources

\* the longest source of the lines below
MaxLines == 3

\* the instructions between the first line of the long source and its label
LongPad == 256

\* "LOAD r0 0x10"
LoadLine == <<"L", "O", "A", "D", " ", "r", "0", " ", "0", "x", "1", "0">>

\* "CMP r2 r0 r1"
CmpLine == <<"C", "M", "P", " ", "r", "2", " ", "r", "0", " ", "r", "1">>

\* "EQ r0 $L1"
EqLabelLine == <<"E", "Q", " ", "r", "0", " ", "$", "L", "1">>

\* "JUMP16 $L0 $L1"
JumpLabelLine == <<"J", "U", "M", "P", "1", "6", " ", "$", "L", "0", " ", "$", "L", "1">>

\* "$L HALT"
LabelledHalt == <<"$", "L", " ", "H", "A", "L", "T">>

\* "$L"
BareLabel == <<"$", "L">>

\* ""
BlankLine == <<>>

\* "# note"
CommentLine == <<"#", " ", "n", "o", "t", "e">>

\* "JUMP16 NEXT0 NEXT1"
JumpNextLine == <<"J", "U", "M", "P", "1", "6", " ", "N", "E", "X", "T", "0", " ", "N", "E", "X", "T", "1">>

\* "LOAD r10 0x01"
WideRegisterLine == <<"L", "O", "A", "D", " ", "r", "1", "0", " ", "0", "x", "0", "1">>

\* "JUMP16 $M0 $M1"
JumpUndefinedLine == <<"J", "U", "M", "P", "1", "6", " ", "$", "M", "0", " ", "$", "M", "1">>

\* "LOAD r0 $L1"
LoadLabelLine == <<"L", "O", "A", "D", " ", "r", "0", " ", "$", "L", "1">>

LineSet ==
    { LoadLine, CmpLine, EqLabelLine, JumpLabelLine,
      LabelledHalt, BareLabel, BlankLine, CommentLine,
      JumpNextLine, WideRegisterLine, JumpUndefinedLine, LoadLabelLine }

\* one line each: "LOAD r0"; "FOO r0 r1"; "LOAD 0x01 r0"; "LOAD r0 0d256"; "LOAD r0 0b102"; "LOAD rG 0x00"; "LOAD r+5 0x01"; "LOAD r0 $L"; "LOAD r0 0xfF"; "LOAD r0 0b"; "$L  HALT"; "JUMP16 0d200 0b101 r0"
SingleLines ==
    { <<"L", "O", "A", "D", " ", "r", "0">>,
      <<"F", "O", "O", " ", "r", "0", " ", "r", "1">>,
      <<"L", "O", "A", "D", " ", "0", "x", "0", "1", " ", "r", "0">>,
      <<"L", "O", "A", "D", " ", "r", "0", " ", "0", "d", "2", "5", "6">>,
      <<"L", "O", "A", "D", " ", "r", "0", " ", "0", "b", "1", "0", "2">>,
      <<"L", "O", "A", "D", " ", "r", "G", " ", "0", "x", "0", "0">>,
      <<"L", "O", "A", "D", " ", "r", "+", "5", " ", "0", "x", "0", "1">>,
      <<"L", "O", "A", "D", " ", "r", "0", " ", "$", "L">>,
      <<"L", "O", "A", "D", " ", "r", "0", " ", "0", "x", "f", "F">>,
      <<"L", "O", "A", "D", " ", "r", "0", " ", "0", "b">>,
      <<"$", "L", " ", " ", "H", "A", "L", "T">>,
      <<"J", "U", "M", "P", "1", "6", " ", "0", "d", "2", "0", "0", " ", "0", "b", "1", "0", "1", " ", "r", "0">> }

\* a line for every mnemonic
EveryMnemonic ==
    << <<"L", "O", "A", "D", " ", "r", "1", " ", "0", "d", "1", "6">>,
       <<"A", "D", "D", " ", "r", "2", " ", "r", "0", " ", "r", "1">>,
       <<"S", "U", "B", " ", "r", "2", " ", "r", "0", " ", "r", "1">>,
       <<"M", "U", "L", " ", "r", "2", " ", "r", "0", " ", "r", "1">>,
       <<"D", "I", "V", " ", "r", "2", " ", "r", "0", " ", "r", "1">>,
       <<"C", "M", "P", " ", "r", "2", " ", "r", "0", " ", "r", "1">>,
       <<"S", "P", "U", "S", "H", " ", "r", "0", " ", "r", "1", " ", "r", "2">>,
       <<"S", "C", "O", "P", "Y", " ", "r", "0", " ", "r", "1", " ", "r", "3">>,
       <<"S", "P", "O", "P", " ", "r", "0", " ", "r", "1", " ", "r", "3">>,
       <<"S", "R", "E", "P", " ", "r", "0", " ", "r", "1", " ", "r", "2">>,
       <<"R", "E", "Q", " ", "r", "0", " ", "r", "1">>,
       <<"E", "Q", " ", "r", "0", " ", "0", "x", "0", "5">>,
       <<"$", "e", "n", "d", " ", "J", "U", "M", "P", "1", "6", " ", "$", "e", "n", "d", "0", " ", "$", "e", "n", "d", "1">>,
       <<"R", "J", "U", "M", "P", "1", "6", " ", "r", "0", " ", "r", "1">>,
       <<"H", "A", "L", "T">> >>

\* a reference to a label that lies beyond instruction 255, and NEXT0 NEXT1
\* beyond it
LongSource ==
    <<JumpLabelLine>> \o [k \in 1 .. LongPad |-> HALT]
        \o <<LabelledHalt, JumpNextLine, JumpLabelLine>>

Sources ==
    SeqsUpTo(LineSet, MaxLines) \cup { <<l>> : l \in SingleLines }
        \cup {EveryMnemonic, LongSource}

\* ------------------------------------------------------------------ assemble, step by step

AsmInit ==
    /\ source \in Sources
    /\ line_no = 0
    /\ patched = 0
    /\ asm = Start
    /\ program = <<>>
    /\ overflow_checks \in BOOLEAN
    /\ stack = <<>>
    /\ stack_memory_map = << <<0, STACK_SIZE>> >>
    /\ registers = [r \in 0 .. (REGISTERS - 1) |-> 0]
    /\ program_counter = 0
    /\ outcome = "start"
    /\ hist = <<>>
    /\ allocated = {}
    /\ disciplined = TRUE
    /\ calls = 0

Running == asm.result = ""

AsmFrame ==
    UNCHANGED <<source, machine, program, overflow_checks, outcome, hist, history>>

\* pass 1 takes the next line
AssembleNextLine ==
    /\ Running
    /\ line_no < Len(source)
    /\ asm' = AssembleLine(asm, source[line_no + 1])
    /\ line_no' = line_no + 1
    /\ UNCHANGED patched
    /\ AsmFrame

\* pass 2 takes the next entry of used_labels
PatchNextLabel ==
    /\ Running
    /\ line_no = Len(source)
    /\ patched < Len(asm.used_labels)
    /\ asm' = Patch(asm, asm.used_labels[patched + 1])
    /\ patched' = patched + 1
    /\ UNCHANGED line_no
    /\ AsmFrame

\* `return Ok(program);`
ReturnProgram ==
    /\ Running
    /\ line_no = Len(source)
    /\ patched = Len(asm.used_labels)
    /\ asm' = [asm EXCEPT !.result = "Ok"]
    /\ UNCHANGED <<line_no, patched>>
    /\ AsmFrame

AsmNext == AssembleNextLine \/ PatchNextLabel \/ ReturnProgram

AsmSpec == AsmInit /\ [][AsmNext]_vars

\* ================================================================== claims on assemble

\* errors that pass 1 returns
Pass1Errors ==
    {"ParseIntError", "MissingArgument", "WrongArgument", "UnknownInstruction"}

Finished == asm.result # ""

\* the operand of an instruction in argument slot 0, 1 or 2
Operand(ins, slot) == IF slot = 0 THEN ins.a ELSE IF slot = 1 THEN ins.b ELSE ins.c

\* the elements of a sequence
Range(s) == { s[k] : k \in 1 .. Len(s) }

\* a line that is `$name` and nothing else
IsBareLabel(line) ==
    Len(line) >= 2 /\ line[1] = "$" /\ \A k \in 1 .. Len(line) : line[k] # " "

\* C14: a line that is only a label is accepted, emits nothing and leaves the
\* instruction index alone, so that the label maps to the index of the next
\* instruction emitted; and while pass 1 runs the instruction index is the
\* number of instructions emitted so far.
C14_BareLabelLine ==
    /\ (line_no >= 1 /\ IsBareLabel(source[line_no])) =>
            /\ asm.result \notin Pass1Errors
            /\ (Running /\ patched = 0) =>
                    Get(asm.labels, SubSeq(source[line_no], 2, Len(source[line_no])))
                        = Len(asm.program)
    /\ (Running /\ patched = 0) => asm.instruction = Len(asm.program)

\* a blank line or a line that starts with #
Ignorable(line) == line = <<>> \/ line[1] = "#"

Significant(line) == ~Ignorable(line)

\* the source without its blank and comment lines
Strip(lines) == SelectSeq(lines, Significant)

\* C15: blank lines and lines that start with # are ignored: a source with
\* such lines, whose other lines assemble, assembles to the same instructions
\* and the same label indexes as those other lines alone.
C15_BlankAndCommentIgnored ==
    ( /\ Finished
      /\ \E k \in 1 .. Len(source) : Ignorable(source[k])
      /\ assemble(Strip(source)).result = "Ok" ) =>
        /\ asm.result = "Ok"
        /\ asm.program = assemble(Strip(source)).program
        /\ asm.labels = assemble(Strip(source)).labels

\* the byte of addr that selector b (0 high, 1 low) asks for
SelectedByte(addr, b) == IF b = 0 THEN (addr \div 256) % 256 ELSE addr % 256

\* C16: when assemble returns a program, every slot that a deferred reference
\* recorded holds the selected byte (high for 0, low for 1) of the index of its
\* label, for indexes of 256 and more too, and every other operand of every
\* instruction is as pass 1 left it. (Line i of a source that assembles is
\* instruction i - 1.)
C16_PatchedByte ==
    asm.result = "Ok" =>
        LET before == [i \in 1 .. Len(source) |->
                AssembleLine([Start EXCEPT !.instruction = i - 1], source[i]).program[1]]
        IN
        /\ Len(asm.program) = Len(source)
        /\ \A i \in 1 .. Len(asm.program) :
            /\ asm.program[i].op = before[i].op
            /\ \A slot \in 0 .. 2 :
                IF \E ref \in Range(asm.used_labels) : ref[3] = i - 1 /\ ref[4] = slot
                THEN \A ref \in Range(asm.used_labels) :
                        (ref[3] = i - 1 /\ ref[4] = slot) =>
                            Operand(asm.program[i], slot)
                                = SelectedByte(Get(asm.labels, ref[1]), ref[2])
                ELSE Operand(asm.program[i], slot) = Operand(before[i], slot)

\* C17: `JUMP16 NEXT0 NEXT1` on the instruction with index i is emitted as a
\* jump to i + 1: NEXT0 is the high byte and NEXT1 the low byte of i + 1, also
\* when i + 1 is 256 or more. (Line n of a source is instruction n - 1.)
C17_NextIsFollowingInstruction ==
    \A n \in 1 .. Len(asm.program) :
        source[n] = JumpNextLine =>
            asm.program[n] = Jump16(SelectedByte(n, 0), SelectedByte(n, 1))

\* a reference made before the instruction its label names
Forward(ref) == ref[3] < Get(asm.labels, ref[1])

\* C18: in a program that assemble returns, a reference `$L0` or `$L1` made
\* before the definition of `$L` is patched to the same byte as the same
\* reference made after the definition.
C18_OrderIndependent ==
    asm.result = "Ok" =>
        \A r1 \in Range(asm.used_labels), r2 \in Range(asm.used_labels) :
            (r1[1] = r2[1] /\ r1[2] = r2[2] /\ Forward(r1) /\ ~Forward(r2)) =>
                Operand(asm.program[r1[3] + 1], r1[4])
                    = Operand(asm.program[r2[3] + 1], r2[4])

C18_Witness ==
    /\ asm.result = "Ok"
    /\ \E r1 \in Range(asm.used_labels), r2 \in Range(asm.used_labels) :
        /\ r1[1] = r2[1] /\ r1[2] = r2[2] /\ Forward(r1) /\ ~Forward(r2)
        /\ Operand(asm.program[r1[3] + 1], r1[4]) # 0

\* C19: when pass 1 succeeded and a deferred reference names a label that the
\* source does not define, assemble returns Err(LabelNotFound); it returns a
\* program only when every label referred to is defined.
C19_UndefinedLabel ==
    /\ ( /\ Finished
         /\ asm.result \notin Pass1Errors
         /\ \E ref \in Range(asm.used_labels) : ~Defined(asm.labels, ref[1]) ) =>
            asm.result = "LabelNotFound"
    /\ asm.result = "Ok" =>
            \A ref \in Range(asm.used_labels) : Defined(asm.labels, ref[1])

\* the argument slots of an instruction that hold register indexes
RegisterSlots(op) ==
    CASE op \in {"Add", "Sub", "Mul", "Div", "Cmp", "SPush", "SCopy", "SPop", "SRep"} ->
            {0, 1, 2}
      [] op \in {"REq", "RJump16"} -> {0, 1}
      [] op \in {"Load", "Eq"} -> {0}
      [] OTHER -> {}

\* C20: every register operand of every instruction of a program that assemble
\* returns is an index into the register file, 0 to 15.
C20_RegistersInRange ==
    asm.result = "Ok" =>
        \A i \in 1 .. Len(asm.program) :
            \A slot \in RegisterSlots(asm.program[i].op) :
                Operand(asm.program[i], slot) \in 0 .. (REGISTERS - 1)

\* ================================================================== claims on run_once, continued

\* the call before the last executed Eq r0 0x05, followed in the program by a
\* Jump16 and a Halt
EqThenJump ==
    /\ Len(hist) >= 2
    /\ Pre2.program_counter + 2 < Len(program)
    /\ InstrAt(Pre2.program_counter) = Eq(0, 5)
    /\ InstrAt(Pre2.program_counter + 1).op = "Jump16"
    /\ InstrAt(Pre2.program_counter + 2) = Halt

\* the last call executed the Jump16 that follows the Eq
JumpExecuted == Pre.program_counter = Pre2.program_counter + 1

\* the last call met the Halt that follows the Jump16, and the machine halted
JumpSkipped ==
    /\ Pre.program_counter = Pre2.program_counter + 2
    /\ program_counter = Pre.program_counter
    /\ outcome = "false"

\* C21, as stated: in Eq r0 0x05; Jump16 hi lo; Halt, when registers[0] is 5 as
\* the Eq executes, the Jump16 is skipped and the machine halts at the Halt;
\* when registers[0] is not 5, the Jump16 executes.
C21_JumpSkippedOnEqual ==
    EqThenJump =>
        IF Pre2.registers[0] = 5 THEN JumpSkipped ELSE JumpExecuted

\* C21, amended: in Eq r0 0x05; Jump16 hi lo; Halt, when registers[0] is 5 as
\* the Eq executes, the Jump16 executes; when registers[0] is not 5, the Jump16
\* is skipped and the machine halts at the Halt.
C21_JumpSkippedOnInequality ==
    EqThenJump =>
        IF Pre2.registers[0] = 5 THEN JumpExecuted ELSE JumpSkipped

\* the Eq found 5 in r0 and the Jump16 after it has been executed and returned
C21_Witness ==
    /\ EqThenJump
    /\ Pre2.registers[0] = 5
    /\ JumpExecuted
    /\ outcome = "true"

\* ================================================================== claims on assemble, continued

\* the tokens of a line from its mnemonic on, a leading label dropped
FromMnemonic(line) ==
    LET parts == Split(line) IN
    IF StartsWith(parts[1], <<"$">>) /\ Len(parts) >= 2 THEN Tail(parts) ELSE parts

\* the name of the Instruction variant that a mnemonic stands for
Variant(mnemonic) ==
    CASE mnemonic = LOAD -> "Load"
      [] mnemonic = ADD -> "Add"
      [] mnemonic = SUB -> "Sub"
      [] mnemonic = MUL -> "Mul"
      [] mnemonic = DIV -> "Div"
      [] mnemonic = CMP -> "Cmp"
      [] mnemonic = SPUSH -> "SPush"
      [] mnemonic = SCOPY -> "SCopy"
      [] mnemonic = SPOP -> "SPop"
      [] mnemonic = SREP -> "SRep"
      [] mnemonic = REQ -> "REq"
      [] mnemonic = EQ -> "Eq"
      [] mnemonic = JUMP16 -> "Jump16"
      [] mnemonic = RJUMP16 -> "RJump16"
      [] mnemonic = HALT -> "Halt"

\* how many operands a variant has
Arity(op) ==
    CASE op = "Halt" -> 0
      [] op \in {"Load", "REq", "Eq", "Jump16", "RJump16"} -> 2
      [] OTHER -> 3

\* C22: the instruction emitted for a well-formed line is the variant its
\* mnemonic names (CMP emits Cmp, and so on for the fifteen mnemonics), with
\* the operands in the order of the line. (Line n of a source is instruction
\* n - 1; an operand written as a label is left to pass 2.)
C22_MnemonicEmitsItsVariant ==
    \A n \in 1 .. Len(asm.program) :
        LET tokens == FromMnemonic(source[n])
            emitted == asm.program[n]
        IN  /\ emitted.op = Variant(tokens[1])
            /\ \A k \in 0 .. (Arity(emitted.op) - 1) :
                 tokens[k + 2][1] # "$" =>
                    Operand(emitted, k)
                        = get_value(<<tokens[k + 2]>>, n - 1, k).arg.value

\* C23: when pass 1 succeeded and every label referred to is defined, pass 2
\* completes and assemble returns the program, whichever Byte slot (of Load,
\* Eq or Jump16) a reference stands in; pass 2 never panics.
C23_LabelInEveryByteSlot ==
    /\ asm.result # "explicit panic"
    /\ ( /\ Finished
         /\ asm.result \notin Pass1Errors
         /\ \A ref \in Range(asm.used_labels) : Defined(asm.labels, ref[1]) ) =>
            asm.result = "Ok"

\* ================================================================== frame claims on run_once

\* the addresses at which two stacks differ
Changed(s, t) == { x \in Touched(s, t) : StackRead(s, x) # StackRead(t, x) }

\* the last call either returned true one instruction further on, or faulted
\* and left the whole machine as it was
AdvancedOrFaulted ==
    IF outcome = "true"
    THEN program_counter = Pre.program_counter + 1
    ELSE /\ IsPanic(outcome)
         /\ MachineKept
         /\ program_counter = Pre.program_counter

\* C24: a call on SCopy(h, l, d) changes no register but registers[d], and
\* neither the stack nor the free list; a call on SRep(h, l, v) changes at most
\* one byte of the stack, to registers[v], and neither a register nor the free
\* list, also when that byte is on the free list; both advance the program
\* counter by one.
C24_CopyAndReplaceFrame ==
    /\ Stepped("SCopy") =>
         /\ AdvancedOrFaulted
         /\ stack = Pre.stack
         /\ stack_memory_map = Pre.stack_memory_map
         /\ \A r \in 0 .. (REGISTERS - 1) :
              r # Executed.c => registers[r] = Pre.registers[r]
    /\ Stepped("SRep") =>
         /\ AdvancedOrFaulted
         /\ registers = Pre.registers
         /\ stack_memory_map = Pre.stack_memory_map
         /\ Cardinality(Changed(stack, Pre.stack)) <= 1
         /\ \A x \in Changed(stack, Pre.stack) :
              StackRead(stack, x) = Pre.registers[Executed.c]

\* an SRep has changed a byte that lies in a run of the free list
C24_Witness ==
    /\ Stepped("SRep")
    /\ outcome = "true"
    /\ \E x \in Changed(stack, Pre.stack) :
         \E i \in 1 .. Len(stack_memory_map) :
            /\ stack_memory_map[i][1] <= x
            /\ x < stack_memory_map[i][1] + stack_memory_map[i][2]

\* C25: a call on SPop(h, l, d) that returns has appended exactly one run
\* (addr, 1) at the end of the free list and read stack[addr] into
\* registers[d]: the runs that were there keep their position, start and
\* length, none is merged with the new one, the stack is unchanged and the
\* total free length has grown by exactly 1.
C25_PopAppendsOneRun ==
    Stepped("SPop") =>
        /\ AdvancedOrFaulted
        /\ outcome = "true" =>
             LET n == Len(stack_memory_map)
                 addr == stack_memory_map[n][1]
             IN  /\ n = Len(Pre.stack_memory_map) + 1
                 /\ SubSeq(stack_memory_map, 1, n - 1) = Pre.stack_memory_map
                 /\ stack_memory_map[n] = <<addr, 1>>
                 /\ registers = [Pre.registers EXCEPT
                                    ![Executed.c] = StackRead(Pre.stack, addr)]
                 /\ stack = Pre.stack
                 /\ TotalFree(stack_memory_map) = TotalFree(Pre.stack_memory_map) + 1

\* an SPop has freed the byte right before the start of a free run, and read
\* a nonzero byte
C25_Witness ==
    /\ Stepped("SPop")
    /\ outcome = "true"
    /\ registers[Executed.c] # 0
    /\ \E i \in 1 .. Len(Pre.stack_memory_map) :
         Pre.stack_memory_map[i][1] = stack_memory_map[Len(stack_memory_map)][1] + 1

\* C26: whatever the two address registers hold, the address of an SCopy, SPop
\* or SRep is in 0 .. 65535: the call does not fault, and every run of the free
\* list lies inside the stack.
C26_AddressInStore ==
    /\ (Stepped("SCopy") \/ Stepped("SPop") \/ Stepped("SRep")) => outcome = "true"
    /\ \A i \in 1 .. Len(stack_memory_map) :
         stack_memory_map[i][1] + stack_memory_map[i][2] <= STACK_SIZE

\* ================================================================== claims on whole runs

\* C27: in a run in which every SPop names, with the bytes an SPush wrote into
\* its address registers, a byte that is allocated, no SPush hands out an
\* address that is allocated: two outstanding allocations never share an
\* address.
C27_NoDoubleAllocation ==
    (Stepped("SPush") /\ outcome = "true" /\ disciplined) =>
        Pre.stack_memory_map[1][1] \notin Pre.allocated

NoJump == \A i \in 1 .. Len(program) : program[i].op \notin {"Jump16", "RJump16"}

====
